---- MODULE Spec2Model ----
(***************************************************************************)
(* A model of bikeshare_2.py: the input collector (get_user_input,         *)
(* get_filters), the loader (load_data, remove_outliers), the four         *)
(* reporters (time_stats, station_stats, trip_duration_stats, user_stats), *)
(* the raw-data pager (display_raw_data) and the main loop.                *)
(*                                                                         *)
(* Text is a tuple of one-character strings, so that strip(), lower() and  *)
(* title() are computed character by character.  A numeric cell is <<v>>   *)
(* and a missing cell (NaN, NaT) is <<>>.  A table is                      *)
(* [isNone, cols, rows]; a row is [idx, cells] with idx the index label    *)
(* read_csv gave it and cells a function from column name to cell.         *)
(***************************************************************************)
EXTENDS Integers, Sequences, FiniteSets, TLC

VARIABLES
    pc,         \* Spec: the statement main is at; UnitSpec: the function last applied
    user_input, \* get_user_input's local: the stripped, lowercased last input
    city,       \* get_filters' locals, returned to main
    month,
    day,
    remove_outliers_flag,
    csv,        \* the file content load_data read (kept until main has looked at df)
    df,         \* main's table
    loaded,     \* the table as load_data returned it in this pass
    rm_method,  \* the method remove_outliers is called with
    row_index,  \* display_raw_data's local
    printed,    \* the windows display_raw_data printed in this pass
    out         \* the messages printed by the last step

vars == <<pc, user_input, city, month, day, remove_outliers_flag, csv, df,
          loaded, rm_method, row_index, printed, out>>

----------------------------------------------------------------------------
(* Text *)

UpperLetters == <<"A","B","C","D","E","F","G","H","I","J","K","L","M","N","O","P","Q","R","S","T","U","V","W","X","Y","Z">>

LowerLetters == <<"a","b","c","d","e","f","g","h","i","j","k","l","m","n","o","p","q","r","s","t","u","v","w","x","y","z">>

\* Code-point order of the characters the model uses.
Alphabet == <<" ">> \o UpperLetters \o LowerLetters \o <<"->">>

Ord(c) == CHOOSE i \in 1..Len(Alphabet) : Alphabet[i] = c

IsUpper(c) == \E i \in 1..Len(UpperLetters) : UpperLetters[i] = c

IsLower(c) == \E i \in 1..Len(LowerLetters) : LowerLetters[i] = c

LowerChar(c) ==
    IF IsUpper(c)
    THEN LowerLetters[CHOOSE i \in 1..Len(UpperLetters) : UpperLetters[i] = c]
    ELSE c

UpperChar(c) ==
    IF IsLower(c)
    THEN UpperLetters[CHOOSE i \in 1..Len(LowerLetters) : LowerLetters[i] = c]
    ELSE c

\* str.lower()
Lower(s) == [i \in 1..Len(s) |-> LowerChar(s[i])]

\* str.strip(): leading and trailing blanks removed, inner blanks kept
Strip(s) ==
    LET solid == {i \in 1..Len(s) : s[i] # " "}
    IN  IF solid = {} THEN <<>>
        ELSE LET first == CHOOSE i \in solid : \A j \in solid : i <= j
                 last  == CHOOSE i \in solid : \A j \in solid : j <= i
             IN  SubSeq(s, first, last)

\* str.title(): a letter is capitalised when no letter precedes it
Title(s) ==
    [i \in 1..Len(s) |->
        IF i = 1 \/ ~(IsUpper(s[i-1]) \/ IsLower(s[i-1]))
        THEN UpperChar(s[i]) ELSE LowerChar(s[i])]

\* s < t in Python's string order
TextLess(s, t) ==
    \/ Len(s) < Len(t) /\ SubSeq(t, 1, Len(s)) = s
    \/ \E i \in 1..Len(s) :
         /\ i <= Len(t)
         /\ SubSeq(s, 1, i-1) = SubSeq(t, 1, i-1)
         /\ Ord(s[i]) < Ord(t[i])

ALL == <<"a","l","l">>

YES == <<"y","e","s">>

VALID_CITIES ==
    << <<"c","h","i","c","a","g","o">>,
       <<"n","e","w"," ","y","o","r","k"," ","c","i","t","y">>,
       <<"w","a","s","h","i","n","g","t","o","n">> >>

VALID_MONTHS ==
    << <<"j","a","n","u","a","r","y">>,
       <<"f","e","b","r","u","a","r","y">>,
       <<"m","a","r","c","h">>,
       <<"a","p","r","i","l">>,
       <<"m","a","y">>,
       <<"j","u","n","e">>,
       ALL >>

VALID_DAYS ==
    << <<"m","o","n","d","a","y">>,
       <<"t","u","e","s","d","a","y">>,
       <<"w","e","d","n","e","s","d","a","y">>,
       <<"t","h","u","r","s","d","a","y">>,
       <<"f","r","i","d","a","y">>,
       <<"s","a","t","u","r","d","a","y">>,
       <<"s","u","n","d","a","y">>,
       ALL >>

\* CITY_DATA's keys
CITY_DATA == {VALID_CITIES[i] : i \in 1..Len(VALID_CITIES)}

Range(s) == {s[i] : i \in 1..Len(s)}

\* list.index(x): position of the first occurrence, counted from 0
IndexOf(list, x) ==
    (CHOOSE i \in 1..Len(list) :
        list[i] = x /\ \A j \in 1..(i-1) : list[j] # x) - 1

\* What the user may type at a prompt.
Typed ==
    { <<"C","h","i","c","a","g","o">>,
      <<" ","w","a","s","h","i","n","g","t","o","n"," ">>,
      <<"J","a","n","u","a","r","y">>,
      <<"J","U","N","E"," ">>,
      <<"J","u","l","y">>,
      <<"a","l","l">>,
      <<"M","o","n","d","a","y">>,
      <<"S","U","N","D","A","Y">>,
      <<" ","Y","e","s">>,
      <<"y","e","s">>,
      <<"n","o">>,
      <<>> }

----------------------------------------------------------------------------
(* Calendar: what pandas derives from a timestamp *)

NaN == <<>>

IsNa(cell) == cell = <<>>

IsLeap(y) == (y % 4 = 0 /\ y % 100 # 0) \/ y % 400 = 0

DaysIn(y, m) ==
    IF m = 2 THEN (IF IsLeap(y) THEN 29 ELSE 28)
    ELSE IF m \in {4, 6, 9, 11} THEN 30 ELSE 31

\* pd.to_datetime(errors='coerce') on one cell written <<year, month, day, hour>>:
\* the timestamp when the fields name a moment of the calendar, NaT otherwise
ToDatetime(cell) ==
    IF /\ Len(cell) = 4
       /\ cell[2] \in 1..12
       /\ cell[3] \in 1..DaysIn(cell[1], cell[2])
       /\ cell[4] \in 0..23
    THEN cell ELSE NaN

\* Series.dt.month
DtMonth(ts) == <<ts[2]>>

\* Series.dt.hour
DtHour(ts) == <<ts[4]>>

DayNames ==
    << <<"S","u","n","d","a","y">>, <<"M","o","n","d","a","y">>,
       <<"T","u","e","s","d","a","y">>, <<"W","e","d","n","e","s","d","a","y">>,
       <<"T","h","u","r","s","d","a","y">>, <<"F","r","i","d","a","y">>,
       <<"S","a","t","u","r","d","a","y">> >>

\* Series.dt.day_name(): the weekday of a Gregorian date
DtDayName(ts) ==
    LET t == <<0, 3, 2, 5, 0, 3, 5, 1, 4, 6, 2, 4>>
        y == IF ts[2] < 3 THEN ts[1] - 1 ELSE ts[1]
        w == (y + (y \div 4) - (y \div 100) + (y \div 400) + t[ts[2]] + ts[3]) % 7
    IN  DayNames[w + 1]

----------------------------------------------------------------------------
(* Tables *)

None == [isNone |-> TRUE, cols |-> {}, rows |-> <<>>]

Frame(cols, rows) == [isNone |-> FALSE, cols |-> cols, rows |-> rows]

\* len(df)
NRows(t) == Len(t.rows)

\* df.empty: some axis has length 0
Empty(t) == Len(t.rows) = 0 \/ t.cols = {}

\* df[c] as the sequence of its cells
Column(t, c) == [i \in 1..Len(t.rows) |-> t.rows[i].cells[c]]

\* df[mask], mask a sequence of booleans: the rows it marks, in order, labels kept
Where(t, mask) ==
    LET marked == {i \in 1..Len(t.rows) : mask[i]}
        at(k)  == CHOOSE i \in marked : Cardinality({j \in marked : j < i}) = k - 1
    IN  Frame(t.cols, [k \in 1..Cardinality(marked) |-> t.rows[at(k)]])

\* df[c] = series: column c added, or overwritten, in place
Assign(t, c, series) ==
    Frame(t.cols \cup {c},
          [i \in 1..Len(t.rows) |->
              [idx   |-> t.rows[i].idx,
               cells |-> [k \in t.cols \cup {c} |->
                            IF k = c THEN series[i] ELSE t.rows[i].cells[k]]]])

RECURSIVE SumSeq(_)
SumSeq(s) == IF s = <<>> THEN 0 ELSE Head(s) + SumSeq(Tail(s))

\* Series.dropna() of a numeric column, as plain numbers
Numbers(cells) ==
    LET Solid(cell) == ~IsNa(cell)
        solid == SelectSeq(cells, Solid)
    IN  [i \in 1..Len(solid) |-> solid[i][1]]

\* The k-th smallest of a non-empty sequence of numbers, k from 1
Kth(nums, k) ==
    CHOOSE v \in Range(nums) :
        /\ Cardinality({i \in 1..Len(nums) : nums[i] < v}) < k
        /\ k <= Cardinality({i \in 1..Len(nums) : nums[i] <= v})

\* 4 * Series.quantile(quarters / 4), linear interpolation between order statistics
Quantile4(nums, quarters) ==
    LET pos == (Len(nums) - 1) * quarters
        j   == pos \div 4
        r   == pos % 4
    IN  IF r = 0 THEN 4 * Kth(nums, j + 1)
        ELSE 4 * Kth(nums, j + 1) + r * (Kth(nums, j + 2) - Kth(nums, j + 1))

\* The IQR mask: lower_bound <= x <= upper_bound, every term scaled by 8
IqrKeeps(nums, cell) ==
    LET q1  == Quantile4(nums, 1)
        q3  == Quantile4(nums, 3)
        iqr == q3 - q1
        lower8 == 2 * q1 - 3 * iqr
        upper8 == 2 * q3 + 3 * iqr
    IN  /\ ~IsNa(cell)
        /\ 8 * cell[1] >= lower8
        /\ 8 * cell[1] <= upper8

\* m * sum(x^2) - sum(x)^2 = m * (m - 1) * std^2 (std with ddof = 1)
Spread(nums) ==
    LET m == Len(nums)
    IN  m * SumSeq([i \in 1..m |-> nums[i] * nums[i]]) - SumSeq(nums) * SumSeq(nums)

\* Series.std() == 0; the std of a single value is NaN, which is not 0
StdIsZero(nums) == Len(nums) >= 2 /\ Spread(nums) = 0

\* The z-score mask |x - mean| / std < 3, squared and cleared of fractions;
\* with std NaN (one value) or x NaN the comparison is False
ZscoreKeeps(nums, cell) ==
    LET m == Len(nums)
        d == m * cell[1] - SumSeq(nums)
    IN  /\ ~IsNa(cell)
        /\ m >= 2
        /\ d * d * (m - 1) < 9 * m * Spread(nums)

\* remove_outliers(df, column, method): [df, out]
remove_outliers(t, column, method) ==
    IF column \notin t.cols
    THEN [df |-> t, out |-> << <<"Warning: column not found">> >>]
    ELSE IF \A i \in 1..NRows(t) : IsNa(t.rows[i].cells[column])
    THEN [df |-> t, out |-> << <<"Warning: only NaN values">> >>]
    ELSE
      LET cells == Column(t, column)
          nums  == Numbers(cells)
          kept  == IF method = "iqr"
                   THEN Where(t, [i \in 1..NRows(t) |-> IqrKeeps(nums, cells[i])])
                   ELSE IF method = "zscore"
                   THEN Where(t, [i \in 1..NRows(t) |-> ZscoreKeeps(nums, cells[i])])
                   ELSE t
          removed == NRows(t) - NRows(kept)
      IN  IF method = "zscore" /\ StdIsZero(nums)
          THEN [df |-> t, out |-> << <<"Warning: standard deviation is 0">> >>]
          ELSE [df  |-> kept,
                out |-> IF removed > 0 THEN << <<"Removed outliers", removed>> >>
                        ELSE <<>>]

----------------------------------------------------------------------------
(* Files *)

FullCols == {"Start Time", "Trip Duration", "Start Station", "End Station",
             "User Type", "Gender", "Birth Year"}

\* A file: absent, present but not a CSV (read_csv raises), or a header and records
MissingFile == [kind |-> "missing", cols |-> {}, rows |-> <<>>]

UnreadableFile == [kind |-> "unreadable", cols |-> {}, rows |-> <<>>]

\* pd.read_csv: the records under a RangeIndex 0, 1, 2, ...
ReadCsv(file) ==
    Frame(file.cols,
          [i \in 1..Len(file.rows) |-> [idx |-> i - 1, cells |-> file.rows[i]]])

\* month_index = VALID_MONTHS.index(month) + 1
MonthIndex(m) == IndexOf(VALID_MONTHS, m) + 1

\* load_data, lines 183-193: Start Time parsed, unparseable rows dropped, month
\* and day_of_week derived
ParseAndDerive(t) ==
    LET raw == Column(t, "Start Time")
        t1  == Assign(t, "Start Time", [i \in 1..NRows(t) |-> ToDatetime(raw[i])])
        ts1 == Column(t1, "Start Time")
        invalid_times == Cardinality({i \in 1..NRows(t1) : IsNa(ts1[i])})
        t2  == IF invalid_times > 0
               THEN Where(t1, [i \in 1..NRows(t1) |-> ~IsNa(ts1[i])]) ELSE t1
        ts  == Column(t2, "Start Time")
        t3  == Assign(t2, "month", [i \in 1..NRows(t2) |-> DtMonth(ts[i])])
    IN  [df  |-> Assign(t3, "day_of_week",
                        [i \in 1..NRows(t2) |-> Lower(DtDayName(ts[i]))]),
         out |-> IF invalid_times > 0
                 THEN << <<"Warning: invalid datetime entries", invalid_times>> >>
                 ELSE <<>>]

\* ApplyFilters with the two selections concatenated (pd.concat) instead of
\* applied one after the other
ApplyFiltersConcat(t, m, d) ==
    LET months == Column(t, "month")
        days   == Column(t, "day_of_week")
        byMonth == IF m # ALL
                   THEN Where(t, [i \in 1..NRows(t) |-> months[i] = <<MonthIndex(m)>>])
                   ELSE t
        byDay   == IF d # ALL
                   THEN Where(t, [i \in 1..NRows(t) |-> days[i] = d])
                   ELSE t
    IN  IF m # ALL /\ d # ALL
        THEN Frame(t.cols, byMonth.rows \o byDay.rows)
        ELSE IF m # ALL THEN byMonth ELSE byDay

\* ApplyFilters with the day filter left out
ApplyFiltersMonthOnly(t, m, d) ==
    LET months == Column(t, "month")
    IN  IF m # ALL
        THEN Where(t, [i \in 1..NRows(t) |-> months[i] = <<MonthIndex(m)>>])
        ELSE t

\* load_data, lines 195-203: the month filter, then the day filter
ApplyFilters(t, m, d) ==
    LET months == Column(t, "month")
        t1   == IF m # ALL
                THEN Where(t, [i \in 1..NRows(t) |-> months[i] = <<MonthIndex(m)>>])
                ELSE t
        days == Column(t1, "day_of_week")
    IN  IF d # ALL
        THEN Where(t1, [i \in 1..NRows(t1) |-> days[i] = d])
        ELSE t1

\* An exception raised inside load_data's try block
LoadRaised == [df |-> None, out |-> <<>>, raised |-> TRUE]

\* load_data, lines 224-226: except Exception: the message, and None returned
LoadCaught(result) ==
    IF result.raised
    THEN [df |-> None, out |-> result.out \o << <<"Error loading data">> >>,
          raised |-> FALSE]
    ELSE result

\* load_data, lines 156-219: the try block, reading `file`: [df, out, raised].
\* read_csv raises on a file that is no CSV; VALID_MONTHS.index raises on a
\* month that is not in the list.
load_data_try(c, m, d, flag, file) ==
    IF c \notin CITY_DATA
    THEN [df |-> None, out |-> << <<"Error: City not found">> >>, raised |-> FALSE]
    ELSE IF file.kind = "missing"
    THEN [df |-> None, out |-> << <<"Error: File not found">> >>, raised |-> FALSE]
    ELSE IF file.kind = "unreadable"
    THEN LoadRaised
    ELSE IF Empty(ReadCsv(file))
    THEN [df |-> None, out |-> << <<"Error: file is empty">> >>, raised |-> FALSE]
    ELSE IF "Start Time" \notin file.cols
    THEN [df |-> None, out |-> << <<"Error: 'Start Time' column not found">> >>, raised |-> FALSE]
    ELSE IF m # ALL /\ m \notin Range(VALID_MONTHS)
    THEN LoadRaised
    ELSE
      LET initial_records == Len(file.rows)
          parsed   == ParseAndDerive(ReadCsv(file))
          filtered == ApplyFilters(parsed.df, m, d)
          cleaned  == IF flag /\ "Trip Duration" \in filtered.cols
                      THEN remove_outliers(filtered, "Trip Duration", "iqr")
                      ELSE [df  |-> filtered,
                            out |-> IF flag
                                    THEN << <<"Warning: 'Trip Duration' column not found">> >>
                                    ELSE <<>>]
      IN  [df  |-> cleaned.df,
           out |-> parsed.out \o cleaned.out
                   \o << <<"Data loaded", NRows(cleaned.df)>> >>
                   \o (IF initial_records # NRows(cleaned.df)
                       THEN << <<"Filtered from", initial_records>> >> ELSE <<>>),
           raised |-> FALSE]

\* load_data(city, month, day, remove_outliers_flag) reading `file`
load_data(c, m, d, flag, file) == LoadCaught(load_data_try(c, m, d, flag, file))

----------------------------------------------------------------------------
(* Reporters.  Each is [df, out, raised]: the table as the call leaves it,  *)
(* the lines it prints (banners and timings left out) and whether an         *)
(* exception leaves the call.                                                *)

Returned(t, lines) == [df |-> t, out |-> lines, raised |-> FALSE]

Raised(t, lines) == [df |-> t, out |-> lines, raised |-> TRUE]

\* Caught without the except clause: the exception leaves the reporter
Uncaught(result, message) == result

\* except Exception as e: print(message): the exception ends there
Caught(result, message) ==
    IF result.raised
    THEN Returned(result.df, result.out \o << <<message>> >>)
    ELSE result

\* The non-missing values of a column
Values(cells) == Range(cells) \ {NaN}

Count(cells, v) == Cardinality({i \in 1..Len(cells) : cells[i] = v})

\* Series.mode(): the most frequent non-missing values
Modes(cells) ==
    {v \in Values(cells) : \A w \in Values(cells) : Count(cells, w) <= Count(cells, v)}

\* Series.mode()[0] of a numeric column: mode() is sorted, so the smallest
ModeNumber(cells) ==
    CHOOSE v \in Modes(cells) : \A w \in Modes(cells) : v[1] <= w[1]

\* Series.mode()[0] of a text column
ModeText(cells) ==
    CHOOSE v \in Modes(cells) : \A w \in Modes(cells) : v = w \/ TextLess(v, w)

\* list[i] raises IndexError outside -len .. len-1
IndexInRange(list, i) == i \in (0 - Len(list))..(Len(list) - 1)

\* list[i], a negative i counted from the end
Item(list, i) == IF i >= 0 THEN list[i + 1] ELSE list[Len(list) + i + 1]

\* time_stats, lines 248-253: the month step; raised when VALID_MONTHS[...] raises
MonthStep(t) ==
    LET months == Column(t, "month")
    IN  IF Modes(months) = {}
        THEN [raised |-> FALSE, out |-> << <<"No month data available.">> >>]
        ELSE LET common_month == ModeNumber(months)[1]
             IN  IF IndexInRange(VALID_MONTHS, common_month - 1)
                 THEN [raised |-> FALSE,
                       out |-> << <<"Most Common Month",
                                    Title(Item(VALID_MONTHS, common_month - 1))>> >>]
                 ELSE [raised |-> TRUE, out |-> <<>>]

\* time_stats, lines 256-260: the weekday step
DayStep(t) ==
    LET days == Column(t, "day_of_week")
    IN  IF Modes(days) = {}
        THEN << <<"No day of week data available.">> >>
        ELSE << <<"Most Common Day", Title(ModeText(days))>> >>

\* WithHour followed by df.reset_index(drop=True, inplace=True)
WithHourReindexed(t) ==
    LET ts == Column(t, "Start Time")
        h  == Assign(t, "hour", [i \in 1..NRows(t) |-> DtHour(ts[i])])
    IN  Frame(h.cols, [i \in 1..NRows(h) |-> [idx |-> i - 1, cells |-> h.rows[i].cells]])

\* time_stats, line 263: df['hour'] = df['Start Time'].dt.hour
WithHour(t) ==
    LET ts == Column(t, "Start Time")
    IN  Assign(t, "hour", [i \in 1..NRows(t) |-> DtHour(ts[i])])

\* time_stats, lines 264-271: the hour step, on the table that has the hour column
HourStep(t) ==
    LET hours == Column(t, "hour")
    IN  IF Modes(hours) = {}
        THEN << <<"No hour data available.">> >>
        ELSE LET common_hour == ModeNumber(hours)[1]
                 hour_12 == IF common_hour % 12 # 0 THEN common_hour % 12 ELSE 12
                 am_pm   == IF common_hour < 12 THEN "AM" ELSE "PM"
             IN  << <<"Most Common Start Hour", common_hour, hour_12, am_pm>> >>

\* time_stats, lines 246-274: the try block
time_stats_try(t) ==
    IF MonthStep(t).raised
    THEN Raised(t, <<>>)
    ELSE Returned(WithHour(t),
                  MonthStep(t).out \o DayStep(t) \o HourStep(WithHour(t)))

\* time_stats without its guard for an empty table
time_stats_unguarded(t) ==
    Caught(time_stats_try(t), "Error calculating time statistics")

time_stats(t) ==
    IF Empty(t)
    THEN Returned(t, << <<"No data available for time statistics.">> >>)
    ELSE Caught(time_stats_try(t), "Error calculating time statistics")

\* The text between the two station names of a trip; "->" stands for the arrow
Arrow == <<" ", "->", " ">>

\* Series + str + Series: missing where either side is missing
Combo(start, end) ==
    IF IsNa(start) \/ IsNa(end) THEN NaN ELSE start \o Arrow \o end

\* station_stats, line 324: df['Start-End Combo'] = ...
WithCombo(t) ==
    LET ss == Column(t, "Start Station")
        es == Column(t, "End Station")
    IN  Assign(t, "Start-End Combo", [i \in 1..NRows(t) |-> Combo(ss[i], es[i])])

\* One "most common" line of station_stats: the mode and how often it occurs
CommonLine(label, none, cells) ==
    IF Modes(cells) = {} THEN <<none>>
    ELSE <<label, ModeText(cells), Count(cells, ModeText(cells))>>

\* station_stats, lines 298-333: the try block
station_stats_try(t) ==
    IF ~({"Start Station", "End Station"} \subseteq t.cols)
    THEN Returned(t, << <<"Warning: Missing columns",
                          {"Start Station", "End Station"} \ t.cols>> >>)
    ELSE Returned(WithCombo(t),
                  << CommonLine("Most Common Start Station",
                                "No start station data available.",
                                Column(t, "Start Station")),
                     CommonLine("Most Common End Station",
                                "No end station data available.",
                                Column(t, "End Station")),
                     CommonLine("Most Common Trip",
                                "No trip combination data available.",
                                Column(WithCombo(t), "Start-End Combo")) >>)

station_stats(t) ==
    IF Empty(t)
    THEN Returned(t, << <<"No data available for station statistics.">> >>)
    ELSE Caught(station_stats_try(t), "Error calculating station statistics")

\* trip_duration_stats, lines 357-382: the try block; the mean is printed as
\* the fraction total / count.  With no duration present the mean is NaN and
\* int(NaN) raises after the total has been printed.
trip_duration_stats_try(t) ==
    IF "Trip Duration" \notin t.cols
    THEN Returned(t, << <<"Error: 'Trip Duration' column not found.">> >>)
    ELSE
      LET nums  == Numbers(Column(t, "Trip Duration"))
          total_duration == SumSeq(nums)
          days    == total_duration \div (24 * 3600)
          hours   == (total_duration % (24 * 3600)) \div 3600
          minutes == (total_duration % 3600) \div 60
          totals  == << <<"Total Travel Time", days, hours, minutes>>,
                        <<"Total Travel Time (seconds)", total_duration>> >>
      IN  IF Len(nums) = 0
          THEN Raised(t, totals)
          ELSE Returned(t, totals \o
                  << <<"Average Trip Duration",
                       total_duration \div (60 * Len(nums)),
                       (total_duration \div Len(nums)) % 60>>,
                     <<"Average Trip Duration (seconds)", total_duration, Len(nums)>> >>)

trip_duration_stats(t) ==
    IF Empty(t)
    THEN Returned(t, << <<"No data available for trip duration statistics.">> >>)
    ELSE Caught(trip_duration_stats_try(t), "Error calculating trip duration statistics")

\* datetime.now().year
CurrentYear == 2026

\* Series.value_counts(): each non-missing value with its count
ValueCounts(cells) == {<<v, Count(cells, v)>> : v \in Values(cells)}

\* user_stats, lines 410-431: the distribution of one categorical column
Distribution(t, column, label, none, absent) ==
    IF column \notin t.cols THEN << <<absent>> >>
    ELSE IF ValueCounts(Column(t, column)) = {} THEN << <<label>>, <<none>> >>
    ELSE << <<label>>, <<ValueCounts(Column(t, column))>> >>

\* user_stats, lines 434-449
BirthYears(t) ==
    IF "Birth Year" \notin t.cols
    THEN << <<"Birth year data not available for this city.">> >>
    ELSE
      LET valid_years == Numbers(Column(t, "Birth Year"))
      IN  IF Len(valid_years) = 0
          THEN << <<"Birth Year Statistics:">>, <<"No birth year data available.">> >>
          ELSE
            LET earliest == CHOOSE y \in Range(valid_years) :
                              \A z \in Range(valid_years) : y <= z
                recent   == CHOOSE y \in Range(valid_years) :
                              \A z \in Range(valid_years) : z <= y
                common_year == ModeNumber(Column(t, "Birth Year"))[1]
            IN  << <<"Birth Year Statistics:">>,
                   <<"Earliest Birth Year", earliest, CurrentYear - earliest>>,
                   <<"Most Recent Birth Year", recent, CurrentYear - recent>>,
                   <<"Most Common Birth Year", common_year, CurrentYear - common_year>> >>

\* user_stats, lines 408-452: the try block
user_stats_try(t) ==
    Returned(t, Distribution(t, "User Type", "User Type Distribution:",
                             "No user type data available.",
                             "User Type data not available for this city.")
                \o Distribution(t, "Gender", "Gender Distribution:",
                                "No gender data available.",
                                "Gender data not available for this city.")
                \o BirthYears(t))

user_stats(t) ==
    IF Empty(t)
    THEN Returned(t, << <<"No data available for user statistics.">> >>)
    ELSE Caught(user_stats_try(t), "Error calculating user statistics")

----------------------------------------------------------------------------
(* The files the program may find: their records are LongRun copies of one   *)
(* record, or none, followed by up to MaxTail records of any kind.           *)

MaxTail == 2

LongRun == 10

Subscriber == <<"S","u","b","s","c","r","i","b","e","r">>

Customer == <<"C","u","s","t","o","m","e","r">>

Record(start, duration, from, to, user, gender, born) ==
    [c \in FullCols |->
        CASE c = "Start Time"    -> start
          [] c = "Trip Duration" -> duration
          [] c = "Start Station" -> from
          [] c = "End Station"   -> to
          [] c = "User Type"     -> user
          [] c = "Gender"        -> gender
          [] c = "Birth Year"    -> born]

\* Monday 2 January 2017, 9h
JanuaryMonday == Record(<<2017, 1, 2, 9>>, <<60>>, <<"A">>, <<"B">>,
                        Subscriber, <<"M","a","l","e">>, <<1980>>)

\* Sunday 4 June 2017, 17h: a long trip by a customer of unknown gender and age
JuneSunday == Record(<<2017, 6, 4, 17>>, <<120>>, <<"B">>, <<"A">>,
                     Customer, NaN, NaN)

\* Monday 7 August 2017, 9h: no duration, no end station
AugustMonday == Record(<<2017, 8, 7, 9>>, NaN, <<"A">>, NaN,
                       Subscriber, <<"M","a","l","e">>, <<1992>>)

\* 30 February: not a date
BadDate == Record(<<2017, 2, 30, 9>>, <<60>>, <<"A">>, <<"B">>,
                  Customer, NaN, <<1980>>)

Records == {JanuaryMonday, JuneSunday, AugustMonday, BadDate}

Tails == UNION {[1..n -> Records] : n \in 0..MaxTail}

Contents == Tails \cup {[i \in 1..LongRun |-> JanuaryMonday] \o tail : tail \in Tails}

\* The column sets a file may have: all seven, Washington's (no Gender, no Birth
\* Year), Start Time alone, all but Start Time
Headers == {FullCols, FullCols \ {"Gender", "Birth Year"}, {"Start Time"},
            FullCols \ {"Start Time"}}

TableFile(cols, records) ==
    [kind |-> "table", cols |-> cols,
     rows |-> [i \in 1..Len(records) |-> [c \in cols |-> records[i][c]]]]

Files ==
    {MissingFile, UnreadableFile}
    \cup {TableFile(cols, records) : cols \in Headers, records \in Contents}

----------------------------------------------------------------------------
(* The program *)

Unset == <<>>

Init ==
    /\ pc = "city"
    /\ user_input = Unset
    /\ city = Unset
    /\ month = Unset
    /\ day = Unset
    /\ remove_outliers_flag = FALSE
    /\ csv = MissingFile
    /\ df = None
    /\ loaded = None
    /\ rm_method = "iqr"
    /\ row_index = 0
    /\ printed = <<>>
    /\ out = <<>>

\* Accepts by prefix: the start of an option is taken for the option
AcceptsPrefix(valid_options, text) ==
    \E option \in Range(valid_options) :
        Len(text) <= Len(option) /\ SubSeq(option, 1, Len(text)) = text

\* get_user_input, line 42: user_input in valid_options
Accepts(valid_options, text) == text \in Range(valid_options)

\* get_filters, lines 63-67: one round of get_user_input's loop for the city
AskCity ==
    /\ pc = "city"
    /\ \E typed \in Typed :
         /\ user_input' = Lower(Strip(typed))
         /\ IF Accepts(VALID_CITIES, user_input')
            THEN city' = user_input' /\ pc' = "month" /\ out' = <<>>
            ELSE city' = city /\ pc' = "city" /\ out' = << <<"Invalid city.">> >>
    /\ UNCHANGED <<month, day, remove_outliers_flag, csv, df, loaded, rm_method,
                   row_index, printed>>

\* get_filters, lines 70-74
AskMonth ==
    /\ pc = "month"
    /\ \E typed \in Typed :
         /\ user_input' = Lower(Strip(typed))
         /\ IF Accepts(VALID_MONTHS, user_input')
            THEN month' = user_input' /\ pc' = "day" /\ out' = <<>>
            ELSE month' = month /\ pc' = "month" /\ out' = << <<"Invalid month.">> >>
    /\ UNCHANGED <<city, day, remove_outliers_flag, csv, df, loaded, rm_method,
                   row_index, printed>>

\* get_filters, lines 77-84
AskDay ==
    /\ pc = "day"
    /\ \E typed \in Typed :
         /\ user_input' = Lower(Strip(typed))
         /\ IF Accepts(VALID_DAYS, user_input')
            THEN day' = user_input' /\ pc' = "outliers" /\ out' = <<>>
            ELSE day' = day /\ pc' = "day" /\ out' = << <<"Invalid day.">> >>
    /\ UNCHANGED <<city, month, remove_outliers_flag, csv, df, loaded, rm_method,
                   row_index, printed>>

\* main, lines 496-497
AskOutliers ==
    /\ pc = "outliers"
    /\ \E typed \in Typed :
         remove_outliers_flag' = (Strip(Lower(typed)) = YES)
    /\ pc' = "load"
    /\ out' = <<>>
    /\ UNCHANGED <<user_input, city, month, day, csv, df, loaded, rm_method,
                   row_index, printed>>

\* main, line 500: df = load_data(...), whatever the city's file holds
Load ==
    /\ pc = "load"
    /\ \E file \in Files :
         LET result == load_data(city, month, day, remove_outliers_flag, file)
         IN  /\ csv' = file
             /\ df' = result.df
             /\ out' = result.out
             /\ pc' = IF result.raised THEN "crashed" ELSE "loaded"
    /\ loaded' = df'
    /\ UNCHANGED <<user_input, city, month, day, remove_outliers_flag, rm_method,
                   row_index, printed>>

\* Branch without the elif for an empty table
BranchNoEmpty(t) == IF t.isNone THEN "failed" ELSE "report"

\* main, lines 503-508: which branch the loaded table takes
Branch(t) ==
    IF t.isNone THEN "failed"
    ELSE IF Empty(t) THEN "no data"
    ELSE "report"

\* main, lines 503-510
Dispatch ==
    /\ pc = "loaded"
    /\ pc' = IF Branch(df) = "report" THEN "time_stats" ELSE "restart"
    /\ out' = IF Branch(df) = "failed" THEN << <<"Failed to load data.">> >>
              ELSE IF Branch(df) = "no data"
              THEN << <<"No data available for the selected filters.">> >>
              ELSE <<>>
    /\ csv' = MissingFile
    /\ UNCHANGED <<user_input, city, month, day, remove_outliers_flag, df, loaded,
                   rm_method, row_index, printed>>

\* main, line 510
TimeStats ==
    /\ pc = "time_stats"
    /\ df' = time_stats(df).df
    /\ out' = time_stats(df).out
    /\ pc' = IF time_stats(df).raised THEN "crashed" ELSE "station_stats"
    /\ UNCHANGED <<user_input, city, month, day, remove_outliers_flag, csv, loaded,
                   rm_method, row_index, printed>>

\* main, line 511
StationStats ==
    /\ pc = "station_stats"
    /\ df' = station_stats(df).df
    /\ out' = station_stats(df).out
    /\ pc' = IF station_stats(df).raised THEN "crashed" ELSE "trip_duration_stats"
    /\ UNCHANGED <<user_input, city, month, day, remove_outliers_flag, csv, loaded,
                   rm_method, row_index, printed>>

\* main, line 512
TripDurationStats ==
    /\ pc = "trip_duration_stats"
    /\ df' = trip_duration_stats(df).df
    /\ out' = trip_duration_stats(df).out
    /\ pc' = IF trip_duration_stats(df).raised THEN "crashed" ELSE "user_stats"
    /\ UNCHANGED <<user_input, city, month, day, remove_outliers_flag, csv, loaded,
                   rm_method, row_index, printed>>

\* main, line 513
UserStats ==
    /\ pc = "user_stats"
    /\ df' = user_stats(df).df
    /\ out' = user_stats(df).out
    /\ pc' = IF user_stats(df).raised THEN "crashed" ELSE "display_raw_data"
    /\ UNCHANGED <<user_input, city, month, day, remove_outliers_flag, csv, loaded,
                   rm_method, row_index, printed>>

\* The rows per window
PAGE == 5

\* df.iloc[a:b]
Iloc(t, a, b) ==
    SubSeq(t.rows, a + 1, IF b < NRows(t) THEN b ELSE NRows(t))

\* Page with the end test off by one: row_index > len(df)
PageOffByOne(show_data) ==
    IF show_data = YES
    THEN /\ printed' = Append(printed, Iloc(df, row_index, row_index + PAGE))
         /\ IF row_index + PAGE > NRows(df)
            THEN /\ out' = << <<"No more data to display.">> >>
                 /\ row_index' = 0
                 /\ pc' = "restart"
            ELSE /\ out' = <<>>
                 /\ row_index' = row_index + PAGE
                 /\ pc' = "display_more"
    ELSE /\ printed' = printed
         /\ out' = <<>>
         /\ row_index' = 0
         /\ pc' = "restart"

\* display_raw_data, lines 474-483: the loop from one answer to the next prompt
\* or to the return
Page(show_data) ==
    IF show_data = YES
    THEN /\ printed' = Append(printed, Iloc(df, row_index, row_index + PAGE))
         /\ IF row_index + PAGE >= NRows(df)
            THEN /\ out' = << <<"No more data to display.">> >>
                 /\ row_index' = 0
                 /\ pc' = "restart"
            ELSE /\ out' = <<>>
                 /\ row_index' = row_index + PAGE
                 /\ pc' = "display_more"
    ELSE /\ printed' = printed
         /\ out' = <<>>
         /\ row_index' = 0
         /\ pc' = "restart"

\* display_raw_data, lines 467-472 and the loop: the first prompt
DisplayRawData ==
    /\ pc = "display_raw_data"
    /\ IF Empty(df)
       THEN /\ out' = << <<"No data available to display.">> >>
            /\ pc' = "restart"
            /\ UNCHANGED <<row_index, printed>>
       ELSE \E typed \in Typed : Page(Strip(Lower(typed)))
    /\ UNCHANGED <<user_input, city, month, day, remove_outliers_flag, csv, df,
                   loaded, rm_method>>

\* display_raw_data, line 483 and the loop: the prompt for five more rows
DisplayMore ==
    /\ pc = "display_more"
    /\ \E typed \in Typed : Page(Strip(Lower(typed)))
    /\ UNCHANGED <<user_input, city, month, day, remove_outliers_flag, csv, df,
                   loaded, rm_method>>

\* main, lines 519-524.  A new pass starts get_filters afresh; the table of the
\* pass that ends is not read again (line 500 rebinds df first) and is dropped.
Restart ==
    /\ pc = "restart"
    /\ \E typed \in Typed :
         IF Strip(Lower(typed)) = YES
         THEN /\ pc' = "city"
              /\ out' = <<>>
         ELSE /\ pc' = "exit"
              /\ out' = << <<"Thank you for using the Bikeshare Data Analysis tool!">> >>
    /\ user_input' = Unset
    /\ city' = Unset
    /\ month' = Unset
    /\ day' = Unset
    /\ remove_outliers_flag' = FALSE
    /\ df' = None
    /\ loaded' = None
    /\ printed' = <<>>
    /\ UNCHANGED <<csv, rm_method, row_index>>

Next ==
    \/ AskCity
    \/ AskMonth
    \/ AskDay
    \/ AskOutliers
    \/ Load
    \/ Dispatch
    \/ TimeStats
    \/ StationStats
    \/ TripDurationStats
    \/ UserStats
    \/ DisplayRawData
    \/ DisplayMore
    \/ Restart

Spec == Init /\ [][Next]_vars

\* The stages in which the process is alive: in each of them Next has a step
Running == pc \notin {"exit", "crashed"}

\* The process goes on while it can and every prompt is answered: weak fairness
\* of Next, with the enabling condition of Next written as the stages it holds in
FairSpec == Spec /\ (<>[]Running => []<><<Next>>_vars)

----------------------------------------------------------------------------
(* The functions one at a time: any loadable table, one call on it *)

January == VALID_MONTHS[1]

June == VALID_MONTHS[6]

Monday == VALID_DAYS[1]

UnitTables ==
    {load_data(VALID_CITIES[1], m, d, FALSE, file).df :
        m \in {ALL, January, June}, d \in {ALL, Monday}, file \in Files} \ {None}

UnitInit ==
    /\ pc = "unit"
    /\ user_input = Unset
    /\ city = Unset
    /\ month = Unset
    /\ day = Unset
    /\ remove_outliers_flag = FALSE
    /\ csv = MissingFile
    /\ df \in UnitTables
    /\ loaded = df
    /\ rm_method = "iqr"
    /\ row_index = 0
    /\ printed = <<>>
    /\ out = <<>>

CallTimeStats ==
    /\ pc = "unit"
    /\ pc' = "time_stats"
    /\ df' = time_stats(df).df
    /\ out' = time_stats(df).out
    /\ UNCHANGED <<user_input, city, month, day, remove_outliers_flag, csv, loaded,
                   rm_method, row_index, printed>>

CallStationStats ==
    /\ pc = "unit"
    /\ pc' = "station_stats"
    /\ df' = station_stats(df).df
    /\ out' = station_stats(df).out
    /\ UNCHANGED <<user_input, city, month, day, remove_outliers_flag, csv, loaded,
                   rm_method, row_index, printed>>

CallTripDurationStats ==
    /\ pc = "unit"
    /\ pc' = "trip_duration_stats"
    /\ df' = trip_duration_stats(df).df
    /\ out' = trip_duration_stats(df).out
    /\ UNCHANGED <<user_input, city, month, day, remove_outliers_flag, csv, loaded,
                   rm_method, row_index, printed>>

CallUserStats ==
    /\ pc = "unit"
    /\ pc' = "user_stats"
    /\ df' = user_stats(df).df
    /\ out' = user_stats(df).out
    /\ UNCHANGED <<user_input, city, month, day, remove_outliers_flag, csv, loaded,
                   rm_method, row_index, printed>>

CallRemoveOutliers ==
    /\ pc = "unit"
    /\ pc' = "remove_outliers"
    /\ \E how \in {"iqr", "zscore"} :
         /\ rm_method' = how
         /\ df' = remove_outliers(df, "Trip Duration", how).df
         /\ out' = remove_outliers(df, "Trip Duration", how).out
    /\ UNCHANGED <<user_input, city, month, day, remove_outliers_flag, csv, loaded,
                   row_index, printed>>

UnitNext ==
    \/ CallTimeStats
    \/ CallStationStats
    \/ CallTripDurationStats
    \/ CallUserStats
    \/ CallRemoveOutliers

UnitSpec == UnitInit /\ [][UnitNext]_vars

----------------------------------------------------------------------------
(* Properties *)

\* The state main is in when load_data has returned a table with outlier
\* removal off
LoadedPlain == pc = "loaded" /\ ~df.isNone /\ ~remove_outliers_flag

\* C1: with outlier removal off, the table load_data returns has no more rows
\* than the table read from the CSV, whatever the month and day filters.
C1_FilterNeverAddsRows == LoadedPlain => NRows(df) <= Len(csv.rows)

\* C1's case: a month filter that kept some rows of the file and dropped others
C1_Witness ==
    /\ LoadedPlain
    /\ month # ALL
    /\ day = ALL
    /\ 0 < NRows(df)
    /\ NRows(df) < Len(csv.rows)

\* The number of the month a filter names: january is 1, ..., june is 6
C8_MonthNumber(m) == CHOOSE k \in 1..6 : VALID_MONTHS[k] = m

\* The positions of the file's records that C8 says are kept
C8_Selected(file, m, d) ==
    {i \in 1..Len(file.rows) :
        LET written == file.rows[i]["Start Time"]
        IN  /\ ~IsNa(ToDatetime(written))
            /\ m = ALL \/ written[2] = C8_MonthNumber(m)
            /\ d = ALL \/ Lower(DtDayName(written)) = d}

\* C8: with outlier removal off, the returned table holds exactly the records
\* of the CSV whose Start Time is a valid timestamp and whose month and weekday
\* match the filters that are not 'all', in the file's order, with their cells.
C8_ExactlyTheMatchingRows ==
    LoadedPlain =>
        /\ {df.rows[k].idx + 1 : k \in 1..NRows(df)} = C8_Selected(csv, month, day)
        /\ \A k \in 1..(NRows(df) - 1) : df.rows[k].idx < df.rows[k + 1].idx
        /\ \A k \in 1..NRows(df) :
             /\ ~IsNa(df.rows[k].cells["Start Time"])
             /\ \A c \in csv.cols \ {"Start Time"} :
                  df.rows[k].cells[c] = csv.rows[df.rows[k].idx + 1][c]

\* C8's case: both filters set, a record with an unparseable Start Time in the
\* file, some records kept and some dropped
C8_Witness ==
    /\ LoadedPlain
    /\ month # ALL
    /\ day # ALL
    /\ 0 < NRows(df)
    /\ NRows(df) < Len(csv.rows)
    /\ \E i \in 1..Len(csv.rows) : IsNa(ToDatetime(csv.rows[i]["Start Time"]))

Reporters == {"time_stats", "station_stats", "trip_duration_stats", "user_stats"}

\* The line each reporter prints for an empty table
C3_NoData(reporter) ==
    CASE reporter = "time_stats" -> <<"No data available for time statistics.">>
      [] reporter = "station_stats" -> <<"No data available for station statistics.">>
      [] reporter = "trip_duration_stats" ->
            <<"No data available for trip duration statistics.">>
      [] reporter = "user_stats" -> <<"No data available for user statistics.">>

\* C3: called on an empty table, each reporter prints its 'no data' line and
\* nothing else, raises nothing and leaves the table as it was.
C3_EmptyTableReportsNoData ==
    (pc \in Reporters /\ NRows(loaded) = 0) =>
        /\ out = <<C3_NoData(pc)>>
        /\ df = loaded

\* C3's case: a reporter has run on a table of seven columns and no rows
C3_Witness ==
    /\ pc = "user_stats"
    /\ NRows(loaded) = 0
    /\ FullCols \subseteq loaded.cols

\* Every value of the column is the same, present, constant
C2_Constant(t, column) ==
    /\ column \in t.cols
    /\ NRows(t) >= 1
    /\ \A i \in 1..NRows(t) :
         /\ ~IsNa(t.rows[i].cells[column])
         /\ t.rows[i].cells[column] = t.rows[1].cells[column]

\* C2: remove_outliers never returns more rows than it was given, by either
\* method, and returns the table as it was when the column is constant.
C2_NeverMoreRowsAndConstantNoOp ==
    pc = "remove_outliers" =>
        /\ NRows(df) <= NRows(loaded)
        /\ C2_Constant(loaded, "Trip Duration") => df = loaded

\* The stages of a pass and the order main takes them in
C9_Order ==
    { <<"city", "city">>, <<"city", "month">>, <<"month", "month">>,
      <<"month", "day">>, <<"day", "day">>, <<"day", "outliers">>,
      <<"outliers", "load">>, <<"load", "loaded">>,
      <<"loaded", "time_stats">>, <<"loaded", "restart">>,
      <<"time_stats", "station_stats">>,
      <<"station_stats", "trip_duration_stats">>,
      <<"trip_duration_stats", "user_stats">>,
      <<"user_stats", "display_raw_data">>,
      <<"display_raw_data", "display_more">>, <<"display_raw_data", "restart">>,
      <<"display_more", "display_more">>, <<"display_more", "restart">>,
      <<"restart", "city">>, <<"restart", "exit">> }

C9_ReportingStages == Reporters \cup {"display_raw_data", "display_more"}

\* C9: a pass goes collector, loader, the four reporters in their order, pager,
\* restart prompt; reporters and pager run only on a non-empty loaded table;
\* the restart prompt leads to a new pass, whose table is the one load_data
\* returns in that pass, or to the exit.
C9_StageOrder ==
    [][ /\ <<pc, pc'>> \in C9_Order
        /\ pc' \in C9_ReportingStages => (~loaded'.isNone /\ NRows(loaded') > 0)
        /\ pc = "loaded" =>
             (pc' = "restart" <=> (df.isNone \/ NRows(df) = 0 \/ df.cols = {}))
        /\ pc = "load" =>
             df' = load_data(city, month, day, remove_outliers_flag, csv').df
        /\ (pc = "restart" /\ pc' = "city") => df'.isNone
      ]_vars

\* C9's case: a whole pass, pager included, has reached the restart prompt
C9_Witness == pc = "restart" /\ Len(printed) > 0 /\ NRows(df) > 0

\* The stages at which at least one reporter has run in this pass
C10_AfterAReporter ==
    {"station_stats", "trip_duration_stats", "user_stats",
     "display_raw_data", "display_more"}

\* What each reporter prints when run on the table as loaded
C10_Independent ==
    /\ pc = "station_stats" => out = time_stats(loaded).out
    /\ pc = "trip_duration_stats" => out = station_stats(loaded).out
    /\ pc = "user_stats" => out = trip_duration_stats(loaded).out
    /\ pc = "display_raw_data" => out = user_stats(loaded).out

\* C10 as stated: the reporters leave the table as load_data returned it, same
\* rows, same order, same columns, and each prints what it prints on that table.
C10_ReportersLeaveTableUnchanged ==
    pc \in C10_AfterAReporter => (df = loaded /\ C10_Independent)

\* C10 amended: the reporters keep the rows, their order, their labels and
\* every cell of the loaded columns; they only add the columns 'hour' and
\* 'Start-End Combo'; each prints what it prints on the table as loaded.
C10_ReportersOnlyAddColumns ==
    pc \in C10_AfterAReporter =>
        /\ NRows(df) = NRows(loaded)
        /\ loaded.cols \subseteq df.cols
        /\ df.cols \subseteq loaded.cols \cup {"hour", "Start-End Combo"}
        /\ \A i \in 1..NRows(df) :
             /\ df.rows[i].idx = loaded.rows[i].idx
             /\ \A c \in loaded.cols : df.rows[i].cells[c] = loaded.rows[i].cells[c]
        /\ C10_Independent

\* C10's case: the pager is handed a table that filtering shortened and to
\* which both columns were added
C10_Witness ==
    /\ pc = "display_raw_data"
    /\ {"hour", "Start-End Combo"} \subseteq df.cols
    /\ \E i \in 1..NRows(df) : df.rows[i].idx # i - 1

\* C4: no error ends the process: no exception leaves a stage, the process
\* exits only from the restart prompt, and once load_data is called the
\* restart prompt is reached, whatever load_data returns and whatever the
\* reporters run into.
C4_NoErrorIsFatal ==
    /\ [](pc # "crashed")
    /\ [][pc' = "exit" => pc = "restart"]_vars
    /\ (pc = "load") ~> (pc = "restart")

\* C4's case: a reporter raised inside its try block and the pass went on
C4_Witness ==
    /\ pc = "user_stats"
    /\ out[Len(out)] = <<"Error calculating trip duration statistics">>
    /\ NRows(df) > 0

PagerStages == {"display_raw_data", "display_more"}

\* The k-th window of a table of n rows: rows 5(k-1) .. min(5k, n) - 1, counted
\* from 0
C5_Window(t, k) ==
    SubSeq(t.rows, 5 * (k - 1) + 1, IF 5 * k < NRows(t) THEN 5 * k ELSE NRows(t))

\* What has been printed so far is the first windows of the table, in order:
\* none empty, no row twice, no more than ceil(n / 5) of them, and the prompt
\* for more is shown only while rows remain
C5_Windows ==
    (pc \in PagerStages \cup {"restart"} /\ ~df.isNone) =>
        /\ \A k \in 1..Len(printed) :
             /\ printed[k] = C5_Window(df, k)
             /\ Len(printed[k]) > 0
        /\ \A k, l \in 1..Len(printed) :
             \A i \in 1..Len(printed[k]), j \in 1..Len(printed[l]) :
                printed[k][i].idx = printed[l][j].idx => (k = l /\ i = j)
        /\ 5 * Len(printed) < NRows(df) + 5
        /\ pc = "display_raw_data" => printed = <<>>
        /\ pc = "display_more" => (Len(printed) >= 1 /\ 5 * Len(printed) < NRows(df))

\* An answer either prints the next window or ends the pager; an answer that
\* prints ends the pager exactly when its window reaches the end of the table
C5_Answer ==
    pc \in PagerStages =>
        \/ /\ pc' = "display_more"
           /\ Len(printed') = Len(printed) + 1
        \/ /\ pc' = "restart"
           /\ printed' = printed
        \/ /\ pc' = "restart"
           /\ Len(printed') = Len(printed) + 1
           /\ 5 * Len(printed') >= NRows(df)

C5_Answers == [][C5_Answer]_vars

\* C5: display_raw_data prints successive, non-overlapping 5-row windows in
\* table order, stops at the first answer that is not 'yes' or right after the
\* window that reaches the end of the table, and always terminates.
C5_PagerWindows ==
    /\ []C5_Windows
    /\ C5_Answers
    /\ (pc \in PagerStages) ~> (pc = "restart")

\* C5's case: three windows were printed, the last one short
C5_Witness ==
    /\ pc = "restart"
    /\ Len(printed) = 3
    /\ Len(printed[3]) < 5

\* The names of the twelve months as time_stats should print them
C6_MonthNames ==
    << <<"J","a","n","u","a","r","y">>, <<"F","e","b","r","u","a","r","y">>,
       <<"M","a","r","c","h">>, <<"A","p","r","i","l">>, <<"M","a","y">>,
       <<"J","u","n","e">>, <<"J","u","l","y">>, <<"A","u","g","u","s","t">>,
       <<"S","e","p","t","e","m","b","e","r">>, <<"O","c","t","o","b","e","r">>,
       <<"N","o","v","e","m","b","e","r">>, <<"D","e","c","e","m","b","e","r">> >>

\* C6: on a non-empty table whose months lie in 1..12, time_stats prints the
\* most frequent month by its name, the most frequent weekday and the most
\* frequent start hour, all three.
C6_TimeStatsReportsAllThree ==
    (pc = "station_stats"
        /\ \A i \in 1..NRows(loaded) : loaded.rows[i].cells["month"][1] \in 1..12) =>
        /\ Len(out) = 3
        /\ out[1] = <<"Most Common Month",
                      C6_MonthNames[ModeNumber(Column(loaded, "month"))[1]]>>
        /\ out[2][1] = "Most Common Day"
        /\ out[3][1] = "Most Common Start Hour"

\* The valid set of each prompt of get_filters, as the code has it: 3 cities,
\* 6 months and 'all', 7 weekdays and 'all'
C7_Valid(prompt) ==
    CASE prompt = "city" -> Range(VALID_CITIES)
      [] prompt = "month" -> Range(VALID_MONTHS)
      [] prompt = "day" -> Range(VALID_DAYS)

\* The valid set of each prompt as C7 states it: the month prompt takes 7
\* months (january to july) and 'all'
C7_ValidAsStated(prompt) ==
    IF prompt = "month"
    THEN Range(VALID_MONTHS) \cup {<<"j","u","l","y">>}
    ELSE C7_Valid(prompt)

C7_Prompts == {"city", "month", "day"}

C7_NextPrompt(prompt) ==
    CASE prompt = "city" -> "month"
      [] prompt = "month" -> "day"
      [] prompt = "day" -> "outliers"

\* One round of get_user_input: the input is stripped and lowercased; a
\* member of the valid set is returned as it is, anything else prints the
\* error message and prompts again
C7_Round(valid) ==
    pc \in C7_Prompts =>
        /\ \E typed \in Typed : user_input' = Lower(Strip(typed))
        /\ IF user_input' \in valid[pc]
           THEN /\ pc' = C7_NextPrompt(pc)
                /\ <<city', month', day'>>[IndexOf(<<"city", "month", "day">>, pc) + 1]
                      = user_input'
           ELSE /\ pc' = pc
                /\ Len(out') = 1
                /\ <<city', month', day'>> = <<city, month, day>>

\* What get_filters has returned when main goes on
C7_Filters ==
    pc \notin C7_Prompts \cup {"exit"} =>
        /\ city \in Range(VALID_CITIES)
        /\ Cardinality(Range(VALID_CITIES)) = 3
        /\ month \in Range(VALID_MONTHS)
        /\ Cardinality(Range(VALID_MONTHS) \ {ALL}) = 6
        /\ day \in Range(VALID_DAYS)
        /\ Cardinality(Range(VALID_DAYS) \ {ALL}) = 7

\* C7 as stated: get_user_input returns exactly the stripped, lowercased
\* inputs that are in the valid set, and the month's valid set is 7 months and
\* 'all'.
C7_CollectorAsStated == []C7_Filters /\ [][C7_Round([p \in C7_Prompts |-> C7_ValidAsStated(p)])]_vars

\* C7 amended: the same, the month's valid set being the 6 months january to
\* june and 'all'.
C7_CollectorReturnsOnlyValid == []C7_Filters /\ [][C7_Round([p \in C7_Prompts |-> C7_Valid(p)])]_vars

\* C7's case: get_filters returned after input that needed stripping and
\* lowercasing
C7_Witness ==
    /\ pc = "outliers"
    /\ city = VALID_CITIES[3]
    /\ month = June
    /\ day = VALID_DAYS[7]

====
